---- MODULE Spec2Model ----
(***************************************************************************)
(* A model of datacollection.py: the fetch-retry-assemble pipeline that    *)
(* downloads MySportsFeeds NFL feeds into JSON files of the working        *)
(* directory, retries transient failures with a quadratic backoff, falls   *)
(* back to the +1/-1 day game ids on a malformed request, and merges the   *)
(* per-game files of a season or week into one composite file.             *)
(*                                                                         *)
(* A Python string is a string: concatenation is \o, a slice is SubSeq.    *)
(* A Python dict that is iterated (params, additional_params) is a         *)
(* sequence of <<key, value>> pairs in insertion order; a JSON document is *)
(* a record.                                                               *)
(***************************************************************************)
EXTENDS Integers, Sequences, FiniteSets, TLC

\* ------------------------------------------------------------------ bounds
\* The longest game list a game-list feed holds.
MaxGames == 2
\* The most transient responses the client gives to one request in a row.
MaxRetry == 2
\* The number of times the process is started.
MaxRuns == 2
\* The longest game list of a provider that has outages or rejects a feed.
MaxFaultyGames == 1

\* -------------------------------------------------------- module constants
SEASONAL_GAME_FEED == "seasonal_games"
SEASONAL_FEEDS == <<"seasonal_team_stats", "seasonal_player_stats">>
WEEKLY_GAME_FEED == "weekly_games"
BY_GAME_FEEDS == <<"game_boxscore", "game_playbyplay", "game_lineup">>
START_YEAR == 2014
SLEEP_TIME == 10
BASE_PARAMS == <<<<"format", "json">>, <<"league", "nfl">>, <<"force", TRUE>>>>
\* The statuses the retry loop sleeps on (line 78) and the one it treats as a
\* malformed request (line 84).
TransientStatuses == {429, 499, 502, 503}
MalformedStatus == 400

\* ---------------------------------------------------------- Python helpers
\* str(n) of a natural number.
Str(n) == ToString(n)

\* n as exactly w digits, zero padded (strftime's %Y, %m and %d).
RECURSIVE Pad(_, _)
Pad(n, w) == IF w = 0 THEN "" ELSE Pad(n \div 10, w - 1) \o ToString(n % 10)

\* p in s, for Python strings.
IsSubstring(p, s) ==
    \E k \in 0..(Len(s) - Len(p)) : SubSeq(s, k + 1, k + Len(p)) = p

\* d[k] = v on an insertion-ordered dict.
DictSet(d, k, v) ==
    IF \E n \in DOMAIN d : d[n][1] = k
    THEN [n \in DOMAIN d |-> IF d[n][1] = k THEN <<k, v>> ELSE d[n]]
    ELSE Append(d, <<k, v>>)

\* d.update(e)
RECURSIVE DictUpdate(_, _)
DictUpdate(d, e) ==
    IF e = <<>> THEN d ELSE DictUpdate(DictSet(d, e[1][1], e[1][2]), Tail(e))

\* d[k] of an insertion-ordered dict that holds k.
DictGet(d, k) == d[CHOOSE n \in DOMAIN d : d[n][1] = k][2]

\* data.pop(k) on a JSON object: the object without the field.
DictPop(doc, k) == [x \in (DOMAIN doc) \ {k} |-> doc[x]]

\* A local variable before its first assignment, and after it.
Unbound == [bound |-> FALSE]
Bound(v) == [bound |-> TRUE, v |-> v]

\* ------------------------------------------------------------ get_filename
RECURSIVE AppendParams(_, _)
AppendParams(filename, items) ==
    IF items = <<>> THEN filename
    ELSE LET k == items[1][1]
             v == items[1][2]
         IN AppendParams(
                IF k /= "" /\ v /= ""
                THEN filename \o "--" \o k \o "." \o v
                ELSE filename \o "--" \o k \o v,
                Tail(items))

get_filename(feed, season, additional_params) ==
    LET filename == "season." \o season \o "--feed." \o feed
    IN IF additional_params /= <<>>
       THEN AppendParams(filename, additional_params) \o ".json"
       ELSE filename \o ".json"

\* ------------------------------------------------------------ get_game_ids
\* A game's schedule.startTime is held as the civil date it falls on in
\* US/Eastern, [y, m, d]: the date game_date_raw carries after astimezone.
IsLeap(y) == (y % 4 = 0 /\ y % 100 /= 0) \/ y % 400 = 0

DaysInMonth(y, m) ==
    IF m = 2 THEN (IF IsLeap(y) THEN 29 ELSE 28)
    ELSE IF m \in {4, 6, 9, 11} THEN 30 ELSE 31

\* date + timedelta(days=1)
PlusOneDay(t) ==
    IF t.d < DaysInMonth(t.y, t.m) THEN [t EXCEPT !.d = t.d + 1]
    ELSE IF t.m < 12 THEN [y |-> t.y, m |-> t.m + 1, d |-> 1]
    ELSE [y |-> t.y + 1, m |-> 1, d |-> 1]

\* date - timedelta(days=1)
MinusOneDay(t) ==
    IF t.d > 1 THEN [t EXCEPT !.d = t.d - 1]
    ELSE IF t.m > 1 THEN [y |-> t.y, m |-> t.m - 1, d |-> DaysInMonth(t.y, t.m - 1)]
    ELSE [y |-> t.y - 1, m |-> 12, d |-> 31]

\* strftime("%Y%m%d")
Strftime(t) == Pad(t.y, 4) \o Pad(t.m, 2) \o Pad(t.d, 2)

get_game_ids(game) ==
    LET game_date_raw == game.schedule.startTime
        game_date == Strftime(game_date_raw)
        plusone_game_date == Strftime(PlusOneDay(game_date_raw))
        minusone_game_date == Strftime(MinusOneDay(game_date_raw))
        teams == "-" \o game.schedule.awayTeam.abbreviation
                         \o "-" \o game.schedule.homeTeam.abbreviation
    IN <<game_date \o teams, plusone_game_date \o teams, minusone_game_date \o teams>>

\* ------------------------------------------------------------------- state
VARIABLES
    store,     \* the working directory: file name -> [complete, json]
    proc,      \* "idle", "running", "exited" or "raised"
    exc,       \* the exception that ended the process, or "none"
    asm,       \* the locals of get_full_season_data / get_data_for_week
    stack,     \* the get_feeds invocations in progress, innermost last
    runs,      \* how many times the process was started
    clock,     \* the position in Launches of the latest start
    catalogue, \* the provider: what it holds and under which ids
    hist,      \* history of the current run, read by the properties only
    docCalls,  \* history: request key -> client calls answered with content
    call       \* a function called on its own: its arguments and what it returned

vars == <<store, proc, exc, asm, stack, runs, clock, catalogue, hist, docCalls, call>>

\* ------------------------------------------------------------ the file system
isfile(path) == path \in DOMAIN store

\* open(path, "w"), json.dump(v, fp) and the close of the with block.
Dumped(v) == [complete |-> TRUE, json |-> v]

\* A write that leaves the directory as it was.
WriteNothing(files, path, content) == files

WriteFile(files, path, content) ==
    [x \in (DOMAIN files) \cup {path} |-> IF x = path THEN content ELSE files[x]]

RemoveFile(files, path) == [x \in (DOMAIN files) \ {path} |-> files[x]]

\* ----------------------------------------------------------- the environment
\* The games the provider schedules, in the order its game lists give them.
Game(t, away, home) ==
    [schedule |-> [startTime |-> t,
                   awayTeam |-> [abbreviation |-> away],
                   homeTeam |-> [abbreviation |-> home]]]

Schedule ==
    << Game([y |-> 2014, m |-> 9, d |-> 4], "GB", "SEA"),
       Game([y |-> 2014, m |-> 12, d |-> 1], "NO", "ATL"),
       Game([y |-> 2014, m |-> 12, d |-> 31], "DAL", "SF") >>

\* How the provider files one game: under the id of the schedule's date, of
\* the day after or of the day before, not at all, or with nothing in it.
Filings == {"canonical", "plusone", "minusone", "none", "empty"}

\* The statuses msf_get_data's Warning carries when the provider is not up.
Outages == {503, 500}

\* The provider: the first n games of the schedule, each filed one way for
\* all its feeds; the feed it rejects as malformed, if any; and the statuses
\* it may answer any request with while it is not up.
Holdings(n, rejects, outages) ==
    {[games |-> SubSeq(Schedule, 1, n), filing |-> f, rejects |-> rejects,
      outages |-> outages] : f \in [1..n -> Filings]}

\* The feeds a provider may reject as malformed whatever the parameters.
Rejections == {SEASONAL_FEEDS[1], SEASONAL_GAME_FEED, WEEKLY_GAME_FEED}

Catalogues ==
    UNION ({Holdings(n, "", {}) : n \in 0..MaxGames} \cup
           {Holdings(n, "", Outages) : n \in 0..MaxFaultyGames} \cup
           {Holdings(n, r, {}) : n \in 0..MaxFaultyGames, r \in Rejections})

LastUpdated == "2015-06-01T00:00:00.000Z"

\* A response of msf_get_data that carries nothing but the timestamp.
EmptyDocument == [lastUpdatedOn |-> LastUpdated]

HasKey(d, k) == \E n \in DOMAIN d : d[n][1] = k

\* The provider's answer to a request for one game's feed: a document when
\* the id is the one the game is filed under, status 400 otherwise.
GameAnswer(c, feed, id) ==
    LET hits == {<<g, k>> \in (DOMAIN c.games) \X (1..3) : get_game_ids(c.games[g])[k] = id}
    IN IF hits = {} THEN [status |-> 400]
       ELSE LET h == CHOOSE h \in hits : TRUE
                filed == c.filing[h[1]]
            IN IF filed = "empty" /\ h[2] = 1
               THEN [status |-> 200, doc |-> EmptyDocument]
               ELSE IF (filed = "canonical" /\ h[2] = 1) \/ (filed = "plusone" /\ h[2] = 2)
                       \/ (filed = "minusone" /\ h[2] = 3)
               THEN [status |-> 200,
                     doc |-> [lastUpdatedOn |-> LastUpdated, feed |-> feed, game |-> id]]
               ELSE [status |-> 400]

\* What msf_get_data(**params) answers when the provider is up.
Answer(c, params) ==
    LET feed == DictGet(params, "feed")
    IN IF feed = c.rejects THEN [status |-> 400]
       ELSE IF feed \in {SEASONAL_GAME_FEED, WEEKLY_GAME_FEED}
       THEN [status |-> 200, doc |-> [lastUpdatedOn |-> LastUpdated, games |-> c.games]]
       ELSE IF HasKey(params, "game")
       THEN GameAnswer(c, feed, DictGet(params, "game"))
       ELSE [status |-> 200,
             doc |-> [lastUpdatedOn |-> LastUpdated, feed |-> feed,
                      season |-> DictGet(params, "season")]]

\* The runs: during the season a driver imports the module and fetches a
\* week; after the season the module is run on its own.  Time does not go
\* back.
Launches ==
    << [today |-> [year |-> 2015, month |-> 1], script |-> "driver"],
       [today |-> [year |-> 2015, month |-> 6], script |-> "module"] >>

\* The week numbers get_data_for_week is called with.
Weeks == {1}

\* ----------------------------------------------------------- get_game_file
\* get_game_file with the -1 id probed before the +1 id.
GameFileMinusFirst(feed, season, game) ==
    LET ids == get_game_ids(game)
        game_file == get_filename(feed, season, <<<<"game", ids[1]>>>>)
        plusone_game_file == get_filename(feed, season, <<<<"game", ids[2]>>>>)
        minusone_game_file == get_filename(feed, season, <<<<"game", ids[3]>>>>)
    IN IF isfile(game_file) THEN game_file
       ELSE IF isfile(minusone_game_file) THEN minusone_game_file
       ELSE plusone_game_file

get_game_file(feed, season, game) ==
    LET ids == get_game_ids(game)
        game_file == get_filename(feed, season, <<<<"game", ids[1]>>>>)
        plusone_game_file == get_filename(feed, season, <<<<"game", ids[2]>>>>)
        minusone_game_file == get_filename(feed, season, <<<<"game", ids[3]>>>>)
    IN IF isfile(game_file) THEN game_file
       ELSE IF isfile(plusone_game_file) THEN plusone_game_file
       ELSE minusone_game_file

\* ------------------------------------------------------------------ frames
NewFrame(feeds, season, additional_params, additional_params_to_try) ==
    [feeds |-> feeds,
     season |-> season,
     additional_params |-> additional_params,
     additional_params_to_try |-> additional_params_to_try,
     params |-> DictUpdate(DictSet(BASE_PARAMS, "season", season), additional_params),
     i |-> 1,              \* position of the for loop over feeds
     j |-> 0,              \* position of the for loop over the alternates
     pc |-> "for",
     retry |-> 0,
     data |-> Unbound,
     status |-> Unbound,
     errors |-> <<>>,
     sleeps |-> <<>>,      \* history: the sleeps of the current feed
     ncalls |-> 0,         \* history: the client calls of the current feed
     last |-> "none"]      \* history: how the previous feed ended

InitAsm ==
    [kind |-> "none", pc |-> "none", today |-> [year |-> 0, month |-> 0],
     script |-> "none",
     year |-> 0, next |-> 0, season |-> "", week |-> "",
     feedIdx |-> 0, games |-> <<>>, gameIdx |-> 0, errors |-> <<>>]

InitHist ==
    [called |-> {},           \* the request keys the client was called for
     written |-> {},       \* the files the run opened for writing
     removed |-> {},       \* the files the run removed
     cached |-> {},        \* the composites the run found and skipped
     resolved |-> {},      \* <<key, alternate key>>: a 400 an alternate resolved
     resumable |-> {},     \* see StartProcess
     fatal |-> {},         \* the request key a status outside the handled ones was raised for
     afterFatal |-> FALSE] \* the run called the client or touched a file after it

\* No function has been called on its own.
NoCall == [fn |-> "none"]

Init ==
    /\ store = <<>>
    /\ proc = "idle"
    /\ exc = "none"
    /\ asm = InitAsm
    /\ stack = <<>>
    /\ runs = 0
    /\ clock = 1
    /\ catalogue \in Catalogues
    /\ hist = InitHist
    /\ docCalls = <<>>
    /\ call = NoCall

Top == stack[Len(stack)]
SetTop(f) == [stack EXCEPT ![Len(stack)] = f]
Feed(f) == f.feeds[f.i]
JsonFile(f) == get_filename(Feed(f), f.season, f.additional_params)

\* An exception nothing catches: the traceback ends the process.
Raise(e) ==
    /\ proc' = "raised"
    /\ exc' = e
    /\ stack' = <<>>

Touch(h) == [h EXCEPT !.afterFatal = (h.fatal /= {})]

\* --------------------------------------------------------------- get_feeds
\* A get_feeds that does not look for the artifact.
DownloadAlways(path) == TRUE

\* Lines 57-70 and 108-109: the head of the loop over feeds, for a feed that
\* remains.  An artifact on disk skips the download.
DownloadNeeded(path) == ~isfile(path)

FeedsLoop ==
    /\ proc = "running" /\ stack /= <<>>
    /\ Top.pc = "for" /\ Top.i <= Len(Top.feeds)
    /\ LET f == [Top EXCEPT !.params = DictSet(Top.params, "feed", Feed(Top))]
       IN IF DownloadNeeded(JsonFile(f))
          THEN stack' = SetTop([f EXCEPT !.retry = 1, !.pc = "call",
                                         !.sleeps = <<>>, !.ncalls = 0])
          ELSE stack' = SetTop([f EXCEPT !.i = f.i + 1, !.last = "skipped",
                                         !.sleeps = <<>>, !.ncalls = 0])
    /\ UNCHANGED <<store, proc, exc, asm, runs, clock, catalogue, hist, docCalls>>
    /\ UNCHANGED call

Called(h, f) == [Touch(h) EXCEPT !.called = h.called \cup {JsonFile(f)}]

CountDoc(path) ==
    [x \in (DOMAIN docCalls) \cup {path} |->
        IF x = path
        THEN (IF path \in DOMAIN docCalls THEN docCalls[path] + 1 ELSE 1)
        ELSE docCalls[x]]

\* A client whose document does not end the retry loop: the call is made
\* again with nothing changed.
ClientDocumentRetried ==
    /\ proc = "running" /\ stack /= <<>>
    /\ Top.pc = "call"
    /\ Answer(catalogue, Top.params).status = 200
    /\ hist' = Called(hist, Top)
    /\ UNCHANGED <<store, proc, exc, asm, stack, runs, clock, catalogue, docCalls, call>>

\* Lines 73-75: msf_get_data returns a document.
ClientDocument ==
    /\ proc = "running" /\ stack /= <<>>
    /\ Top.pc = "call"
    /\ Answer(catalogue, Top.params).status = 200
    /\ LET doc == Answer(catalogue, Top.params).doc
       IN
         /\ stack' = SetTop([Top EXCEPT !.data = Bound(DictPop(doc, "lastUpdatedOn")),
                                        !.retry = 0, !.pc = "after",
                                        !.ncalls = Top.ncalls + 1])
         /\ docCalls' = IF doc = EmptyDocument THEN docCalls ELSE CountDoc(JsonFile(Top))
    /\ hist' = Called(hist, Top)
    /\ UNCHANGED <<store, proc, exc, asm, runs, clock, catalogue>>
    /\ UNCHANGED call

\* The statuses the provider may answer a request with instead of serving it:
\* a provider that has outages is down while the first launch runs and up
\* for the launches after it.
Down == IF runs = 1 THEN catalogue.outages ELSE {}

\* A backoff that grows with the attempt, not with its square.
LinearBackoff(retry) == SLEEP_TIME * retry

\* Line 82: the length of the sleep before the next attempt.
Backoff(retry) == SLEEP_TIME * retry * retry

\* Lines 76-83: a transient status; sleep and try again.
ClientTransient ==
    /\ proc = "running" /\ stack /= <<>>
    /\ Top.pc = "call"
    /\ Len(Top.sleeps) < MaxRetry
    /\ \E status \in Down :
         /\ status \in TransientStatuses
         /\ stack' = SetTop([Top EXCEPT !.status = Bound(status),
                                        !.sleeps = Append(Top.sleeps, Backoff(Top.retry)),
                                        !.retry = Top.retry + 1,
                                        !.ncalls = Top.ncalls + 1])
    /\ hist' = Called(hist, Top)
    /\ UNCHANGED <<store, proc, exc, asm, runs, clock, catalogue, docCalls>>
    /\ UNCHANGED call

\* Lines 84-85 and 95-99: status 400.  With alternates the loop over them
\* starts; without, the feed is given up.
ClientMalformed ==
    /\ proc = "running" /\ stack /= <<>>
    /\ Top.pc = "call"
    /\ Answer(catalogue, Top.params).status = MalformedStatus
    /\ LET f == [Top EXCEPT !.status = Bound(MalformedStatus),
                            !.ncalls = Top.ncalls + 1]
       IN IF f.additional_params_to_try /= <<>>
          THEN stack' = SetTop([f EXCEPT !.pc = "alt", !.j = 1])
          ELSE stack' = SetTop([f EXCEPT !.pc = "after", !.retry = -1])
    /\ hist' = Called(hist, Top)
    /\ UNCHANGED <<store, proc, exc, asm, runs, clock, catalogue, docCalls>>
    /\ UNCHANGED call

\* A get_feeds that gives the feed up on a status it does not handle, as it
\* does on a 400 without alternates, instead of raising it again.
ClientFatalSkipped ==
    /\ proc = "running" /\ stack /= <<>>
    /\ Top.pc = "call"
    /\ \E status \in Down :
         /\ status \notin TransientStatuses /\ status /= MalformedStatus
         /\ stack' = SetTop([Top EXCEPT !.status = Bound(status), !.retry = -1,
                                        !.pc = "after", !.ncalls = Top.ncalls + 1])
    /\ hist' = [Called(hist, Top) EXCEPT !.fatal = {JsonFile(Top)}]
    /\ UNCHANGED <<store, proc, exc, asm, runs, clock, catalogue, docCalls>>
    /\ UNCHANGED call

\* Lines 100-101: any other status is raised again.
ClientFatal ==
    /\ proc = "running" /\ stack /= <<>>
    /\ Top.pc = "call"
    /\ \E status \in Down :
         /\ status \notin TransientStatuses /\ status /= MalformedStatus
         /\ Raise("Warning")
    /\ hist' = [Called(hist, Top) EXCEPT !.fatal = {JsonFile(Top)}]
    /\ UNCHANGED <<store, asm, runs, clock, catalogue, docCalls>>
    /\ UNCHANGED call

\* Lines 86-90: the recursive call for the next alternate.
TryAlternate ==
    /\ proc = "running" /\ stack /= <<>>
    /\ Top.pc = "alt"
    /\ LET try_params == Top.additional_params_to_try[Top.j]
       IN stack' = Append(SetTop([Top EXCEPT !.pc = "waitalt"]),
                          NewFrame(<<Feed(Top)>>, Top.season, try_params, <<>>))
    /\ UNCHANGED <<store, proc, exc, asm, runs, clock, catalogue, hist, docCalls>>
    /\ UNCHANGED call

Finished(f) == f.pc = "for" /\ f.i > Len(f.feeds)

\* The artifact key of a get_feeds invocation for one feed.
CalledFile(f) == get_filename(f.feeds[1], f.season, f.additional_params)

\* Lines 90-94 and 111: the recursive call returns its errors.
AlternateReturn ==
    /\ proc = "running" /\ Len(stack) >= 2
    /\ Finished(Top)
    /\ LET caller == stack[Len(stack) - 1]
           ret == Top.errors
           rest == SubSeq(stack, 1, Len(stack) - 2)
       IN /\ caller.pc = "waitalt"
          /\ IF ret = <<>>
             THEN /\ stack' = Append(rest, [caller EXCEPT !.retry = 0, !.pc = "after"])
                  /\ hist' = [hist EXCEPT !.resolved =
                                hist.resolved \cup {<<JsonFile(caller), CalledFile(Top)>>}]
             ELSE /\ stack' = Append(rest,
                        IF caller.j < Len(caller.additional_params_to_try)
                        THEN [caller EXCEPT !.retry = -1, !.j = caller.j + 1, !.pc = "alt"]
                        ELSE [caller EXCEPT !.retry = -1, !.pc = "after"])
                  /\ hist' = hist
    /\ UNCHANGED <<store, proc, exc, asm, runs, clock, catalogue, docCalls>>
    /\ UNCHANGED call

\* An error record that carries the parameters without the status.
ErrorRecordWithoutStatus(f) == f.params

\* Line 103: the record of a feed that was given up.
ErrorRecord(f) == DictSet(f.params, "error", f.status.v)

\* Lines 102-107: after the retry loop; the error is recorded or the document
\* written (open, dump and close of the with block).  `retry == -1 or not data` reads data
\* only when retry is not -1, and the append reads status.
FeedDone ==
    /\ proc = "running" /\ stack /= <<>>
    /\ Top.pc = "after"
    /\ IF Top.retry = -1 \/ (Top.data.bound /\ DOMAIN Top.data.v = {})
       THEN IF Top.status.bound
            THEN /\ stack' = SetTop([Top EXCEPT !.errors = Append(Top.errors, ErrorRecord(Top)),
                                                !.i = Top.i + 1, !.pc = "for",
                                                !.last = "error"])
                 /\ UNCHANGED <<store, proc, exc, hist>>
            ELSE /\ Raise("UnboundLocalError")
                 /\ UNCHANGED <<store, hist>>
       ELSE IF ~Top.data.bound
            THEN /\ Raise("UnboundLocalError")
                 /\ UNCHANGED <<store, hist>>
            ELSE /\ store' = WriteFile(store, JsonFile(Top), Dumped(Top.data.v))
                 /\ stack' = SetTop([Top EXCEPT !.i = Top.i + 1, !.pc = "for",
                                                !.last = "written"])
                 /\ hist' = [Touch(hist) EXCEPT !.written = hist.written \cup {JsonFile(Top)}]
                 /\ UNCHANGED <<proc, exc>>
    /\ UNCHANGED <<asm, runs, clock, catalogue, docCalls>>
    /\ UNCHANGED call

\* ------------------------------------------------- the season/week assembler
SeasonName(year) == Str(year) \o "-" \o Str(year + 1) \o "-regular"

\* The parameters that name the unit's files: none for a season, the week
\* for a week.
UnitParams(a) == IF a.kind = "week" THEN <<<<"week", a.week>>>> ELSE <<>>

ListFeed(a) == IF a.kind = "week" THEN WEEKLY_GAME_FEED ELSE SEASONAL_GAME_FEED
ListFile(a) == get_filename(ListFeed(a), a.season, UnitParams(a))
FeedFile(a, feed) == get_filename(feed, a.season, UnitParams(a))
ErrorFile(a, feed) ==
    get_filename(feed, a.season, Append(UnitParams(a), <<"errors", "">>))
CurrentFeed(a) == BY_GAME_FEEDS[a.feedIdx]

\* Every game of the unit's list has a file under one of the probed keys,
\* and the unit's error artifact for the feed is there.
Resumable(a, feed) ==
    /\ isfile(ErrorFile(a, feed))
    /\ isfile(ListFile(a)) /\ store[ListFile(a)].complete
    /\ LET games == store[ListFile(a)].json.games
       IN \A n \in DOMAIN games : isfile(get_game_file(feed, a.season, games[n]))

\* Line 304, and lines 173-175: the module is run or imported; it calls
\* get_full_season_data() with the default start year.
StartProcess ==
    /\ proc \in {"idle", "exited", "raised"}
    /\ runs < MaxRuns
    /\ \E l \in clock..Len(Launches) :
         LET now == Launches[l].today
         IN /\ asm' = [InitAsm EXCEPT
                         !.kind = "season", !.pc = "year", !.today = now,
                         !.script = Launches[l].script, !.year = START_YEAR,
                         !.next = IF now.month > 2 THEN now.year ELSE now.year - 1]
            /\ clock' = l
    /\ proc' = "running"
    /\ exc' = "none"
    /\ stack' = <<>>
    /\ runs' = runs + 1
    /\ hist' = InitHist
    /\ UNCHANGED <<store, catalogue, docCalls>>
    /\ UNCHANGED call

\* Lines 177-180: the loop over the seasons; the seasonal feeds and the game
\* list are fetched in one batch.
SeasonLoop ==
    /\ proc = "running" /\ stack = <<>>
    /\ asm.kind = "season" /\ asm.pc = "year"
    /\ IF asm.year < asm.next
       THEN /\ asm' = [asm EXCEPT !.season = SeasonName(asm.year), !.pc = "wait_list"]
            /\ stack' = <<NewFrame(Append(SEASONAL_FEEDS, SEASONAL_GAME_FEED),
                                   SeasonName(asm.year), <<>>, <<>>)>>
       ELSE /\ asm' = [asm EXCEPT !.pc = "returned"]
            /\ stack' = stack
    /\ UNCHANGED <<store, proc, exc, runs, clock, catalogue, hist, docCalls>>
    /\ UNCHANGED call

\* Lines 238-246: get_data_for_week(week), called by a script that imported
\* the module, with no season_start_year.
StartWeek ==
    /\ proc = "running" /\ stack = <<>>
    /\ asm.kind = "season" /\ asm.pc = "returned" /\ asm.script = "driver"
    /\ \E w \in Weeks :
         LET week == Str(w)
             now == asm.today
             season_start_year == IF now.month > 8 THEN now.year ELSE now.year - 1
             season == SeasonName(season_start_year)
         IN /\ asm' = [InitAsm EXCEPT !.kind = "week", !.pc = "wait_list",
                                      !.today = now, !.script = asm.script,
                                      !.week = week, !.season = season]
            /\ stack' = <<NewFrame(<<WEEKLY_GAME_FEED>>, season, <<<<"week", week>>>>, <<>>)>>
    /\ UNCHANGED <<store, proc, exc, runs, clock, catalogue, hist, docCalls>>
    /\ UNCHANGED call

\* The script ends.
ProcessExit ==
    /\ proc = "running" /\ stack = <<>>
    /\ asm.pc = "returned"
    /\ asm.script = "module" \/ asm.kind = "week"
    /\ proc' = "exited"
    /\ UNCHANGED <<store, exc, asm, stack, runs, clock, catalogue, hist, docCalls>>
    /\ UNCHANGED call

\* An assembler that goes on to the by-game feeds whatever the batch returned.
ListReturnRegardless ==
    /\ proc = "running" /\ Len(stack) = 1
    /\ Finished(Top) /\ asm.pc = "wait_list"
    /\ stack' = <<>>
    /\ asm' = [asm EXCEPT !.pc = "feed", !.feedIdx = 1]
    /\ UNCHANGED <<store, proc, exc, runs, clock, catalogue, hist, docCalls, call>>

\* Lines 180 and 234-235 (246 and 300-301): the game-list batch returns.
ListReturn ==
    /\ proc = "running" /\ Len(stack) = 1
    /\ Finished(Top) /\ asm.pc = "wait_list"
    /\ stack' = <<>>
    /\ IF Top.errors = <<>>
       THEN /\ asm' = [asm EXCEPT !.pc = "feed", !.feedIdx = 1]
            /\ hist' = [hist EXCEPT !.resumable =
                          {<<asm.kind, BY_GAME_FEEDS[n]>> : n \in
                              {k \in DOMAIN BY_GAME_FEEDS : Resumable(asm, BY_GAME_FEEDS[k])}}]
       ELSE /\ asm' = IF asm.kind = "season"
                      THEN [asm EXCEPT !.pc = "year", !.year = asm.year + 1]
                      ELSE [asm EXCEPT !.pc = "returned"]
            /\ hist' = hist
    /\ UNCHANGED <<store, proc, exc, runs, clock, catalogue, docCalls>>
    /\ UNCHANGED call

\* An assembler that does not look for the composite.
AssemblyAlways(feed_file) == TRUE

\* Whether the by-game feed is still to be assembled (lines 183 and 249).
AssemblyNeeded(feed_file) == ~isfile(feed_file)

\* Lines 181-187 and 230-233 (247-257 and 296-299): the loop over the by-game
\* feeds.  A composite on disk skips the feed; otherwise the game list is
\* read back from its file.
FeedCheck ==
    /\ proc = "running" /\ stack = <<>>
    /\ asm.pc = "feed"
    /\ IF asm.feedIdx > Len(BY_GAME_FEEDS)
       THEN /\ asm' = IF asm.kind = "season"
                      THEN [asm EXCEPT !.pc = "year", !.year = asm.year + 1]
                      ELSE [asm EXCEPT !.pc = "returned"]
            /\ UNCHANGED <<proc, exc, hist>>
       ELSE IF ~AssemblyNeeded(FeedFile(asm, CurrentFeed(asm)))
       THEN /\ asm' = [asm EXCEPT !.feedIdx = asm.feedIdx + 1]
            /\ hist' = [hist EXCEPT !.cached = hist.cached \cup {<<asm.kind, CurrentFeed(asm)>>}]
            /\ UNCHANGED <<proc, exc>>
       ELSE IF ~isfile(ListFile(asm))
       THEN /\ proc' = "raised" /\ exc' = "FileNotFoundError"
            /\ UNCHANGED <<asm, hist>>
       ELSE IF ~store[ListFile(asm)].complete
       THEN /\ proc' = "raised" /\ exc' = "JSONDecodeError"
            /\ UNCHANGED <<asm, hist>>
       ELSE /\ asm' = [asm EXCEPT !.pc = "game", !.gameIdx = 1, !.errors = <<>>,
                                  !.games = store[ListFile(asm)].json.games]
            /\ UNCHANGED <<proc, exc, hist>>
    /\ UNCHANGED <<store, stack, runs, clock, catalogue, docCalls>>
    /\ UNCHANGED call

\* Lines 188-197 (258-265): the per-game fetch, with the +1 and -1 ids as
\* alternates.
GameLoop ==
    /\ proc = "running" /\ stack = <<>>
    /\ asm.pc = "game" /\ asm.gameIdx <= Len(asm.games)
    /\ LET ids == get_game_ids(asm.games[asm.gameIdx])
       IN stack' = <<NewFrame(<<CurrentFeed(asm)>>, asm.season,
                              <<<<"game", ids[1]>>>>,
                              << <<<<"game", ids[2]>>>>, <<<<"game", ids[3]>>>> >>)>>
    /\ asm' = [asm EXCEPT !.pc = "wait_game"]
    /\ UNCHANGED <<store, proc, exc, runs, clock, catalogue, hist, docCalls>>
    /\ UNCHANGED call

\* Line 192 (260): errors += get_feeds(...)
GameReturn ==
    /\ proc = "running" /\ Len(stack) = 1
    /\ Finished(Top) /\ asm.pc = "wait_game"
    /\ stack' = <<>>
    /\ asm' = [asm EXCEPT !.errors = asm.errors \o Top.errors,
                          !.gameIdx = asm.gameIdx + 1, !.pc = "game"]
    /\ UNCHANGED <<store, proc, exc, runs, clock, catalogue, hist, docCalls>>
    /\ UNCHANGED call

\* The per-game documents from the last game of the list to the first.
DataListReversed(feed, season, games) ==
    [n \in DOMAIN games |->
        store[get_game_file(feed, season, games[Len(games) + 1 - n])].json]

\* Lines 204-209 (272-277): the per-game documents, in game-list order, each
\* read from the file get_game_file names.
DataList(feed, season, games) ==
    [n \in DOMAIN games |-> store[get_game_file(feed, season, games[n])].json]

\* The exception the reads of lines 206-207 raise, "none" when all succeed:
\* that of the first game whose file is missing or does not parse.
RECURSIVE ReadError(_, _, _)
ReadError(feed, season, games) ==
    IF games = <<>> THEN "none"
    ELSE LET path == get_game_file(feed, season, games[1])
         IN IF ~isfile(path) THEN "FileNotFoundError"
            ELSE IF ~store[path].complete THEN "JSONDecodeError"
            ELSE ReadError(feed, season, Tail(games))

\* An assembler that takes every unit for complete.
NeverIncomplete(errors) == TRUE

\* The test of lines 199 and 267.
Complete(errors) == errors = <<>>

\* Lines 199-216 (267-284): no errors; the composite is built and written.
\* The season-level unit goes on to its cleanup, the week-level one to the
\* next feed.
Assemble ==
    /\ proc = "running" /\ stack = <<>>
    /\ asm.pc = "game" /\ asm.gameIdx > Len(asm.games)
    /\ Complete(asm.errors)
    /\ LET feed == CurrentFeed(asm)
           feed_file == FeedFile(asm, feed)
           e == ReadError(feed, asm.season, asm.games)
       IN IF e /= "none"
          THEN /\ proc' = "raised" /\ exc' = e
               /\ UNCHANGED <<store, asm, hist>>
          ELSE /\ store' = WriteFile(store, feed_file,
                                     Dumped(DataList(feed, asm.season, asm.games)))
               /\ asm' = IF asm.kind = "season"
                         THEN [asm EXCEPT !.pc = "delete_games"]
                         ELSE [asm EXCEPT !.pc = "feed", !.feedIdx = asm.feedIdx + 1]
               /\ hist' = [Touch(hist) EXCEPT
                             !.written = hist.written \cup {feed_file},
                             !.removed = hist.removed \cup ({feed_file} \cap DOMAIN store)]
               /\ UNCHANGED <<proc, exc>>
    /\ UNCHANGED <<stack, runs, clock, catalogue, docCalls>>
    /\ UNCHANGED call

\* Lines 221-229 (285-295): errors; the previous error file is removed and
\* the new one written.
ErrorsWrite ==
    /\ proc = "running" /\ stack = <<>>
    /\ asm.pc = "game" /\ asm.gameIdx > Len(asm.games)
    /\ ~Complete(asm.errors)
    /\ LET error_file == ErrorFile(asm, CurrentFeed(asm))
       IN /\ store' = WriteFile(store, error_file, Dumped(asm.errors))
          /\ hist' = [Touch(hist) EXCEPT
                        !.written = hist.written \cup {error_file},
                        !.removed = hist.removed \cup ({error_file} \cap DOMAIN store)]
    /\ asm' = [asm EXCEPT !.pc = "feed", !.feedIdx = asm.feedIdx + 1]
    /\ UNCHANGED <<proc, exc, stack, runs, clock, catalogue, docCalls>>
    /\ UNCHANGED call

\* ----------------------------------------------------------------- cleanup
\* os.listdir("."): the file names in some order.
RECURSIVE listdir(_)
listdir(names) ==
    IF names = {} THEN <<>>
    ELSE LET x == CHOOSE x \in names : TRUE
         IN <<x>> \o listdir(names \ {x})

\* list(s): the characters of a string.
Characters(s) == [n \in 1..Len(s) |-> SubSeq(s, n, n)]

\* `to_delete += filename` on a list, for each file name: the list is
\* extended by the elements of the string, its characters.
RECURSIVE Collect(_, _)
Collect(to_delete, filenames) ==
    IF filenames = <<>> THEN to_delete
    ELSE Collect(to_delete \o Characters(filenames[1]), Tail(filenames))

\* for filename in to_delete: os.remove(filename).  os.remove raises
\* FileNotFoundError for a name that is no file.
RECURSIVE RemoveEach(_, _)
RemoveEach(files, to_delete) ==
    IF to_delete = <<>> THEN [raised |-> FALSE, files |-> files]
    ELSE LET filename == to_delete[1]
         IN IF filename \in DOMAIN files
            THEN RemoveEach(RemoveFile(files, filename), Tail(to_delete))
            ELSE [raised |-> TRUE, files |-> files]

delete_weekly_feeds_for_season(files, season) ==
    LET matching == {filename \in DOMAIN files :
                        /\ IsSubstring("--week.", filename)
                        /\ IsSubstring("season." \o season, filename)}
        week_feeds_to_delete == Collect(<<>>, listdir(matching))
    IN RemoveEach(files, week_feeds_to_delete)

delete_games_for_season_and_feed(files, season, feed) ==
    LET matching == {filename \in DOMAIN files :
                        /\ IsSubstring("--game.", filename)
                        /\ IsSubstring("season." \o season, filename)
                        /\ IsSubstring("feed." \o feed, filename)}
        game_feeds_to_delete == Collect(<<>>, listdir(matching))
    IN RemoveEach(files, game_feeds_to_delete)

\* Line 218.
DeleteGames ==
    /\ proc = "running" /\ stack = <<>>
    /\ asm.kind = "season" /\ asm.pc = "delete_games"
    /\ LET r == delete_games_for_season_and_feed(store, asm.season, CurrentFeed(asm))
       IN /\ store' = r.files
          /\ hist' = [Touch(hist) EXCEPT !.removed =
                        hist.removed \cup ((DOMAIN store) \ DOMAIN r.files)]
          /\ IF r.raised
             THEN /\ proc' = "raised" /\ exc' = "FileNotFoundError"
                  /\ asm' = asm
             ELSE /\ asm' = [asm EXCEPT !.pc = "delete_weekly"]
                  /\ UNCHANGED <<proc, exc>>
    /\ UNCHANGED <<stack, runs, clock, catalogue, docCalls>>
    /\ UNCHANGED call

\* Line 219, and the step to the next by-game feed.
DeleteWeekly ==
    /\ proc = "running" /\ stack = <<>>
    /\ asm.kind = "season" /\ asm.pc = "delete_weekly"
    /\ LET r == delete_weekly_feeds_for_season(store, asm.season)
       IN /\ store' = r.files
          /\ hist' = [Touch(hist) EXCEPT !.removed =
                        hist.removed \cup ((DOMAIN store) \ DOMAIN r.files)]
          /\ IF r.raised
             THEN /\ proc' = "raised" /\ exc' = "FileNotFoundError"
                  /\ asm' = asm
             ELSE /\ asm' = [asm EXCEPT !.pc = "feed", !.feedIdx = asm.feedIdx + 1]
                  /\ UNCHANGED <<proc, exc>>
    /\ UNCHANGED <<stack, runs, clock, catalogue, docCalls>>
    /\ UNCHANGED call

\* ------------------------------------------------------------ the operator
\* The units a run works on.
Units ==
    {[kind |-> "season", season |-> SeasonName(START_YEAR), week |-> ""]} \cup
    {[kind |-> "week", season |-> SeasonName(START_YEAR), week |-> Str(w)] : w \in Weeks}

\* The document of one game of one feed, as the provider files it under id.
GameDocument(feed, id) == [feed |-> feed, game |-> id]

\* Between two runs, someone puts the per-game artifact an error artifact
\* reports missing into the directory, under one of the three keys
\* get_game_file probes.
ManualSupply ==
    /\ proc \in {"exited", "raised"}
    /\ \E u \in Units, n \in DOMAIN BY_GAME_FEEDS, k \in 1..3 :
         LET feed == BY_GAME_FEEDS[n]
         IN /\ isfile(ErrorFile(u, feed)) /\ store[ErrorFile(u, feed)].complete
            /\ \A m \in 1..(n - 1) : ~isfile(ErrorFile(u, BY_GAME_FEEDS[m]))
            /\ isfile(ListFile(u)) /\ store[ListFile(u)].complete
            /\ \E g \in DOMAIN store[ListFile(u)].json.games :
                 LET ids == get_game_ids(store[ListFile(u)].json.games[g])
                     errors == store[ErrorFile(u, feed)].json
                     path == get_filename(feed, u.season, <<<<"game", ids[k]>>>>)
                 IN /\ \E e \in DOMAIN errors : DictGet(errors[e], "game") = ids[1]
                    /\ ~isfile(path)
                    /\ store' = WriteFile(store, path, Dumped(GameDocument(feed, ids[k])))
    /\ proc' = "idle"
    /\ exc' = "none"
    /\ asm' = InitAsm
    /\ hist' = InitHist
    /\ UNCHANGED <<stack, runs, clock, catalogue, docCalls>>
    /\ UNCHANGED call

\* ----------------------------------------------------------- specification
Next ==
    \/ StartProcess
    \/ SeasonLoop
    \/ StartWeek
    \/ ProcessExit
    \/ ListReturn
    \/ FeedCheck
    \/ GameLoop
    \/ GameReturn
    \/ Assemble
    \/ ErrorsWrite
    \/ DeleteGames
    \/ DeleteWeekly
    \/ FeedsLoop
    \/ ClientDocument
    \/ ClientTransient
    \/ ClientMalformed
    \/ ClientFatal
    \/ TryAlternate
    \/ AlternateReturn
    \/ FeedDone
    \/ ManualSupply

Spec == Init /\ [][Next]_vars

\* ------------------------------------------------------------------ claims
\* The feed the frame's loop over feeds has just left, and its artifact key.
LeftFeed(f) == f.feeds[f.i - 1]
LeftFile(f) == get_filename(LeftFeed(f), f.season, f.additional_params)

\* The request a frame makes for a feed, written out key by key.
Request(f, feed) ==
    DictSet(DictUpdate(DictSet(BASE_PARAMS, "season", f.season), f.additional_params),
            "feed", feed)

\* The keys get_game_file probes for the per-game artifact of one game.
ProbedFiles(feed, season, game) ==
    {get_filename(feed, season, <<<<"game", get_game_ids(game)[k]>>>>) : k \in 1..3}

\* C1: the client is called for a request only while no artifact is under the
\* request's key; over all runs no request is answered with a document more
\* than once; and a get_feeds call that finds the artifact makes no client
\* call and, called for that one feed, returns no error.
C1_CallOnlyWithoutArtifact ==
    /\ \A n \in DOMAIN stack :
         LET f == stack[n]
         IN /\ f.pc = "call" => ~isfile(JsonFile(f))
            /\ (f.pc = "for" /\ f.last = "skipped") =>
                 /\ f.ncalls = 0
                 /\ isfile(LeftFile(f))
                 /\ Len(f.feeds) = 1 => f.errors = <<>>
    /\ \A path \in DOMAIN docCalls : docCalls[path] = 1

\* A second get_feeds call for a request the client once answered with a
\* document has returned without calling the client.
C1_SecondCallSkips ==
    \E n \in DOMAIN stack :
        LET f == stack[n]
        IN /\ Len(f.feeds) = 1 /\ Finished(f) /\ f.last = "skipped"
           /\ CalledFile(f) \in DOMAIN docCalls
           /\ CalledFile(f) \notin hist.called
           /\ runs = 2

\* get_feeds is about to leave the retry loop of a request whose 400 an
\* alternate resolved.
Resolved ==
    /\ proc = "running" /\ stack /= <<>>
    /\ Top.pc = "after" /\ Top.retry = 0
    /\ \E r \in hist.resolved : r[1] = JsonFile(Top)

\* C2: a request whose primary parameters got a 400 and one of whose alternates
\* was fetched, or was in the store already, is resolved: get_feeds goes on
\* without raising, records no error for the feed, and the alternate's
\* artifact is in the store.
C2_ResolvedByAlternate ==
    [][Resolved =>
         /\ proc' = "running" /\ exc' = "none"
         /\ stack' /= <<>>
         /\ Top'.errors = Top.errors
         /\ \A r \in hist.resolved : r[1] = JsonFile(Top) => r[2] \in DOMAIN store']_vars

\* The run dies of the unbound `data` after an alternate resolved a 400.
C2_UnboundData ==
    /\ proc = "raised" /\ exc = "UnboundLocalError"
    /\ \E r \in hist.resolved : r[2] \in DOMAIN store

\* The frame has given a feed up after a 400.
GivenUp(f) == f.pc = "for" /\ f.last = "error" /\ f.retry = -1

\* C3: a request that got a 400, and a 400 for each of its alternates, leaves
\* exactly one error record for the feed, which carries the parameters of the
\* original request and the status 400; the 400 is the last client call for
\* the feed; and no artifact is written, under the request's key or under an
\* alternate's.
C3_MalformedGivenUp ==
    \A n \in DOMAIN stack :
        LET f == stack[n]
        IN /\ (f.pc = "after" /\ f.retry = -1) =>
                /\ f.status = Bound(MalformedStatus)
                /\ f.ncalls = Len(f.sleeps) + 1
           /\ GivenUp(f) =>
                /\ f.errors /= <<>>
                /\ f.errors[Len(f.errors)] =
                     Append(Request(f, LeftFeed(f)), <<"error", 400>>)
                /\ Cardinality({e \in DOMAIN f.errors :
                                  DictGet(f.errors[e], "feed") = LeftFeed(f)}) = 1
                /\ f.ncalls = Len(f.sleeps) + 1
                /\ ~isfile(LeftFile(f))
                /\ \A a \in DOMAIN f.additional_params_to_try :
                     ~isfile(get_filename(LeftFeed(f), f.season,
                                          f.additional_params_to_try[a]))

\* A per-game request was given up after the +1 and the -1 id were tried.
C3_AlternatesExhausted ==
    /\ Len(stack) = 1
    /\ GivenUp(Top)
    /\ Len(Top.additional_params_to_try) = 2
    /\ Len(Top.errors) = 1

\* C4: the N-th sleep of a request lasts SLEEP_TIME * N * N seconds, and the
\* attempt counter is one more than the transient responses so far.
C4_QuadraticBackoff ==
    \A n \in DOMAIN stack :
        LET f == stack[n]
        IN /\ \A k \in DOMAIN f.sleeps : f.sleeps[k] = SLEEP_TIME * k * k
           /\ f.pc = "call" => f.retry = Len(f.sleeps) + 1

\* A request has slept twice, 10 and 40 seconds.
C4_SleptTwice ==
    \E n \in DOMAIN stack :
        /\ Len(stack[n].sleeps) >= 2
        /\ stack[n].sleeps[1] = 10 /\ stack[n].sleeps[2] = 40

\* C5: a status outside 429, 499, 502, 503 and 400 ends the run at once with
\* the client's Warning: no client call and no write or removal of a file
\* follows, the failing request has no artifact, and the by-game feed that
\* was being fetched has no composite.
C5_FatalPropagates ==
    hist.fatal /= {} =>
        /\ proc = "raised" /\ exc = "Warning" /\ stack = <<>>
        /\ ~hist.afterFatal
        /\ \A path \in hist.fatal : ~isfile(path)
        /\ asm.pc = "wait_game" => ~isfile(FeedFile(asm, CurrentFeed(asm)))

\* A per-game fetch met a fatal status after the run had written files.
C5_FatalInGameLoop ==
    /\ hist.fatal /= {}
    /\ asm.pc = "wait_game"
    /\ hist.written /= {}

\* C6: a composite holds one document per game of the unit's game list, in
\* the order of the list: the document of the feed for that game, the one in
\* the file get_game_file names.
C6_CompositeInOrder ==
    \A u \in Units, n \in DOMAIN BY_GAME_FEEDS :
        LET feed == BY_GAME_FEEDS[n]
        IN isfile(FeedFile(u, feed)) =>
             /\ isfile(ListFile(u))
             /\ LET games == store[ListFile(u)].json.games
                    data_list == store[FeedFile(u, feed)].json
                IN /\ DOMAIN data_list = DOMAIN games
                   /\ \A g \in DOMAIN games :
                        LET game_file == get_game_file(feed, u.season, games[g])
                        IN /\ data_list[g].feed = feed
                           /\ \E k \in 1..3 : data_list[g].game = get_game_ids(games[g])[k]
                           /\ isfile(game_file) => data_list[g] = store[game_file].json

\* A composite of two games has been written.
C6_TwoGameComposite ==
    \E u \in Units, n \in DOMAIN BY_GAME_FEEDS :
        /\ isfile(FeedFile(u, BY_GAME_FEEDS[n]))
        /\ Len(store[FeedFile(u, BY_GAME_FEEDS[n])].json) >= 2
        /\ FeedFile(u, BY_GAME_FEEDS[n]) \in hist.written

\* The per-game artifacts of a feed and season in the store.
Intermediates(feed, season) ==
    {path \in DOMAIN store :
        \E game \in DOMAIN Schedule : path \in ProbedFiles(feed, season, Schedule[game])}

\* C7: once the season-level assembly has written the composite of a feed,
\* the cleanup of the per-game artifacts does not end the run, and after it
\* no per-game artifact of the feed and season is left and nothing else has
\* been removed.
C7_IntermediatesDeleted ==
    (asm.kind = "season" /\ asm.pc \in {"delete_games", "delete_weekly"}) =>
        /\ asm.pc = "delete_games" => proc = "running"
        /\ asm.pc = "delete_weekly" =>
             /\ Intermediates(CurrentFeed(asm), asm.season) = {}
             /\ \A n \in DOMAIN BY_GAME_FEEDS :
                  n /= asm.feedIdx =>
                    hist.removed \cap Intermediates(BY_GAME_FEEDS[n], asm.season) = {}

\* The cleanup ended the run and the per-game artifacts are still there.
C7_CleanupRaises ==
    /\ asm.kind = "season" /\ asm.pc = "delete_games"
    /\ proc = "raised" /\ exc = "FileNotFoundError"
    /\ isfile(FeedFile(asm, CurrentFeed(asm)))
    /\ Intermediates(CurrentFeed(asm), asm.season) /= {}

\* The assembler is at a by-game feed whose composite is in the store.
AtComposite ==
    /\ proc = "running" /\ stack = <<>>
    /\ asm.pc = "feed" /\ asm.feedIdx <= Len(BY_GAME_FEEDS)
    /\ isfile(FeedFile(asm, CurrentFeed(asm)))

\* C8: a by-game feed whose composite exists is skipped: the step from it
\* goes to the next feed and calls no client, writes no file and removes
\* none; and the per-game loop runs only for a feed without a composite.
C8_CompositeSkipped ==
    /\ [](asm.pc \in {"game", "wait_game"} => ~isfile(FeedFile(asm, CurrentFeed(asm))))
    /\ [][AtComposite =>
            /\ store' = store /\ stack' = <<>> /\ docCalls' = docCalls
            /\ hist'.called = hist.called /\ hist'.written = hist.written
            /\ hist'.removed = hist.removed
            /\ asm'.pc = "feed" /\ asm'.feedIdx = asm.feedIdx + 1]_vars

\* A later run has skipped a by-game feed whose composite an earlier run wrote.
C8_SkippedOnRerun ==
    /\ runs = 2
    /\ \E n \in DOMAIN BY_GAME_FEEDS :
         /\ <<asm.kind, BY_GAME_FEEDS[n]>> \in hist.cached
         /\ asm.feedIdx > n
    /\ hist.written = {} /\ hist.removed = {}

\* The per-game loop of a unit's feed has ended with errors.
ErrorsDue ==
    /\ proc = "running" /\ stack = <<>>
    /\ asm.pc = "game" /\ asm.gameIdx > Len(asm.games)
    /\ asm.errors /= <<>>

\* The games of the unit's list that no per-game artifact of the feed is
\* there for.
FailedGames(a) ==
    {g \in DOMAIN a.games :
        ProbedFiles(CurrentFeed(a), a.season, a.games[g]) \cap DOMAIN store = {}}

\* C9: a per-game loop that ends with errors is followed by the write of the
\* unit's error artifact and nothing else: the artifact holds the accumulated
\* error records, one per failed game in the order of the list, in place of
\* what it held before; no composite is written and no other file changes.
C9_ErrorArtifact ==
    [][ErrorsDue =>
         LET feed == CurrentFeed(asm)
             error_file == ErrorFile(asm, feed)
         IN /\ DOMAIN store' = (DOMAIN store) \cup {error_file}
            /\ store'[error_file].json = asm.errors
            /\ \A path \in DOMAIN store : path /= error_file => store'[path] = store[path]
            /\ FeedFile(asm, feed) \notin DOMAIN store'
            /\ Len(asm.errors) = Cardinality(FailedGames(asm))
            /\ \A e \in DOMAIN asm.errors :
                 /\ HasKey(asm.errors[e], "error")
                 /\ \E g \in FailedGames(asm) :
                      /\ DictGet(asm.errors[e], "game") = get_game_ids(asm.games[g])[1]
                      /\ Cardinality({h \in FailedGames(asm) : h < g}) = e - 1
            /\ proc' = "running"]_vars

\* A run has replaced the error artifact of an earlier run.
C9_ErrorArtifactReplaced ==
    /\ runs = 2
    /\ asm.pc = "feed" /\ asm.feedIdx > 1 /\ asm.errors /= <<>>
    /\ LET error_file == ErrorFile(asm, BY_GAME_FEEDS[asm.feedIdx - 1])
       IN /\ error_file \in hist.written
          /\ error_file \in hist.removed
          /\ store[error_file].json = asm.errors

\* C10: a unit that was left with an error artifact, and for every game of
\* whose list a per-game artifact is in the store under one of the three
\* probed keys when the run comes to it, is assembled by the run: the run
\* does not end at that feed before the composite is written, and the
\* composite is there once the run is past the feed.
C10_ResumeCompletes ==
    \A n \in DOMAIN BY_GAME_FEEDS :
        (asm.kind \in {"season", "week"} /\ <<asm.kind, BY_GAME_FEEDS[n]>> \in hist.resumable) =>
            /\ (asm.feedIdx = n /\ proc = "raised") => isfile(FeedFile(asm, BY_GAME_FEEDS[n]))
            /\ asm.feedIdx > n => isfile(FeedFile(asm, BY_GAME_FEEDS[n]))

\* A re-run with every per-game artifact supplied ends at the feed, without a
\* composite.
C10_ResumeRaises ==
    /\ proc = "raised" /\ exc = "UnboundLocalError"
    /\ asm.kind \in {"season", "week"}
    /\ <<asm.kind, CurrentFeed(asm)>> \in hist.resumable
    /\ ~isfile(FeedFile(asm, CurrentFeed(asm)))
    /\ hist.resolved /= {}

\* ------------------------------------------ the functions called on their own
\* get_game_file and get_filename are called directly, as a test calls them,
\* on a directory and on parameters the assembler's own runs do not produce:
\* one call in each behaviour.

\* The directories: any of the per-game files of one game of the first
\* by-game feed, under the three ids get_game_ids gives.
Directories ==
    {[path \in files |-> Dumped(GameDocument(BY_GAME_FEEDS[1], path))] :
        files \in UNION {SUBSET ProbedFiles(BY_GAME_FEEDS[1], SeasonName(START_YEAR),
                                            Schedule[g]) : g \in 1..MaxGames}}

\* The keys and the values of the additional parameters.
ParamStrings == {"", "a", "b", "a.b", "week", "1"}

\* The dicts of two entries, in insertion order.
TwoEntries ==
    {<< <<k1, v1>>, <<k2, v2>> >> :
        <<k1, v1, k2, v2>> \in {q \in ParamStrings \X ParamStrings \X ParamStrings \X ParamStrings :
                                  q[1] /= q[3]}}

\* The same entries inserted in the opposite order.
Reordered(d) == [n \in DOMAIN d |-> d[Len(d) + 1 - n]]

InitCalls ==
    /\ store \in Directories
    /\ proc = "idle"
    /\ exc = "none"
    /\ asm = InitAsm
    /\ stack = <<>>
    /\ runs = 0
    /\ clock = 1
    /\ catalogue \in Holdings(0, "", {})
    /\ hist = InitHist
    /\ docCalls = <<>>
    /\ call = NoCall

\* get_game_file(feed, season, game) on the directory.
CallGetGameFile ==
    /\ call = NoCall
    /\ \E game \in {Schedule[g] : g \in 1..MaxGames} :
         call' = [fn |-> "get_game_file", feed |-> BY_GAME_FEEDS[1],
                  season |-> SeasonName(START_YEAR), game |-> game,
                  ret |-> get_game_file(BY_GAME_FEEDS[1], SeasonName(START_YEAR), game)]
    /\ UNCHANGED <<store, proc, exc, asm, stack, runs, clock, catalogue, hist, docCalls>>

\* get_filename(feed, season, additional_params), and the call with the same
\* entries in the opposite order.
CallGetFilename ==
    /\ call = NoCall
    /\ \E additional_params \in TwoEntries :
         call' = [fn |-> "get_filename", feed |-> WEEKLY_GAME_FEED,
                  season |-> SeasonName(START_YEAR),
                  additional_params |-> additional_params,
                  ret |-> get_filename(WEEKLY_GAME_FEED, SeasonName(START_YEAR),
                                       additional_params),
                  again |-> get_filename(WEEKLY_GAME_FEED, SeasonName(START_YEAR),
                                         additional_params),
                  reordered |-> get_filename(WEEKLY_GAME_FEED, SeasonName(START_YEAR),
                                             Reordered(additional_params))]
    /\ UNCHANGED <<store, proc, exc, asm, stack, runs, clock, catalogue, hist, docCalls>>

NextCalls ==
    \/ CallGetGameFile
    \/ CallGetFilename

SpecCalls == InitCalls /\ [][NextCalls]_vars

\* The three keys of a game in the order they are to be probed.
ProbeOrder(feed, season, game) ==
    [k \in 1..3 |-> get_filename(feed, season, <<<<"game", get_game_ids(game)[k]>>>>)]

\* C11: get_game_file returns the first of the canonical, the +1 and the -1
\* key whose file exists, and the -1 key when none of them exists.
C11_ProbingOrder ==
    call.fn = "get_game_file" =>
        LET keys == ProbeOrder(call.feed, call.season, call.game)
            present == {k \in 1..3 : keys[k] \in DOMAIN store}
        IN /\ present /= {} =>
                \E k \in present : call.ret = keys[k] /\ \A j \in present : k <= j
           /\ present = {} => call.ret = keys[3]

\* get_game_file returned the +1 key: the canonical file is absent, the +1
\* and the -1 file are there.
C11_PlusOneFound ==
    /\ call.fn = "get_game_file"
    /\ LET keys == ProbeOrder(call.feed, call.season, call.game)
       IN /\ keys[1] \notin DOMAIN store
          /\ keys[2] \in DOMAIN store /\ keys[3] \in DOMAIN store
          /\ call.ret = keys[2]

\* C12: get_filename gives the same key for the same feed, season and ordered
\* parameters, and a different key for the same entries in another order.
C12_OrderSensitive ==
    call.fn = "get_filename" =>
        /\ call.again = call.ret
        /\ call.reordered /= call.ret

\* Two entries that render alike: {"a": "b", "a.b": ""} gives the same key in
\* both orders.
C12_SameKeyBothOrders ==
    /\ call.fn = "get_filename"
    /\ call.additional_params = << <<"a", "b">>, <<"a.b", "">> >>
    /\ call.ret = "season.2014-2015-regular--feed.weekly_games--a.b--a.b.json"
    /\ call.reordered = call.ret

\* ------------------------------------------------------------ interruption
\* The process is stopped from outside (a signal, Ctrl-C, the machine going
\* down) while it runs.  Lines 105-106, 214-215 and 225-226 write a file as
\* open(path, "w") followed by json.dump: the open creates or truncates the
\* file, so a stop between the two leaves the path with an incomplete
\* document.

\* What open(path, "w") leaves until json.dump has run to its end.
Truncated == [complete |-> FALSE]

\* The stop the process does not survive.
Stop ==
    /\ proc' = "raised"
    /\ exc' = "KeyboardInterrupt"
    /\ stack' = <<>>

\* A stop at a point where no file is open.
Interrupt ==
    /\ proc = "running"
    /\ Stop
    /\ UNCHANGED <<store, asm, runs, clock, catalogue, hist, docCalls, call>>

\* A stop inside the with block of lines 105-106.
InterruptedDump ==
    /\ proc = "running" /\ stack /= <<>>
    /\ Top.pc = "after" /\ Top.retry /= -1
    /\ Top.data.bound /\ DOMAIN Top.data.v /= {}
    /\ store' = WriteFile(store, JsonFile(Top), Truncated)
    /\ Stop
    /\ UNCHANGED <<asm, runs, clock, catalogue, hist, docCalls, call>>

\* A stop inside the with block of lines 214-215 (282-283).
InterruptedComposite ==
    /\ proc = "running" /\ stack = <<>>
    /\ asm.pc = "game" /\ asm.gameIdx > Len(asm.games)
    /\ Complete(asm.errors)
    /\ ReadError(CurrentFeed(asm), asm.season, asm.games) = "none"
    /\ store' = WriteFile(store, FeedFile(asm, CurrentFeed(asm)), Truncated)
    /\ Stop
    /\ UNCHANGED <<asm, runs, clock, catalogue, hist, docCalls, call>>

\* A stop inside the with block of lines 225-226 (291-292).
InterruptedErrors ==
    /\ proc = "running" /\ stack = <<>>
    /\ asm.pc = "game" /\ asm.gameIdx > Len(asm.games)
    /\ ~Complete(asm.errors)
    /\ store' = WriteFile(store, ErrorFile(asm, CurrentFeed(asm)), Truncated)
    /\ Stop
    /\ UNCHANGED <<asm, runs, clock, catalogue, hist, docCalls, call>>

NextInterrupted ==
    \/ Next
    \/ Interrupt
    \/ InterruptedDump
    \/ InterruptedComposite
    \/ InterruptedErrors

SpecInterrupted == Init /\ [][NextInterrupted]_vars

\* C13: every file in the store holds the complete document written for it,
\* also after a stop at any point, so that a run which takes a file's
\* existence for "already fetched" or "already assembled" never takes an
\* incomplete one.
C13_FilesComplete ==
    \A path \in DOMAIN store : store[path].complete

\* A run after a stop has skipped the download of a feed whose file is
\* incomplete.
C13_IncompleteAccepted ==
    /\ runs = 2
    /\ \E n \in DOMAIN stack :
         /\ stack[n].pc = "for" /\ stack[n].last = "skipped"
         /\ ~store[LeftFile(stack[n])].complete

\* C14: once the week-level assembly has written the composite of a feed and
\* gone on, no per-game artifact of the feed and season is left in the store.
C14_WeekIntermediatesDeleted ==
    asm.kind = "week" =>
        \A n \in DOMAIN BY_GAME_FEEDS :
            (asm.feedIdx > n /\ FeedFile(asm, BY_GAME_FEEDS[n]) \in hist.written) =>
                Intermediates(BY_GAME_FEEDS[n], asm.season) = {}

\* The week-level run has ended with the composite written and the per-game
\* artifacts of the feed still in the store.
C14_WeekIntermediatesLeft ==
    /\ asm.kind = "week" /\ proc = "exited"
    /\ FeedFile(asm, BY_GAME_FEEDS[1]) \in hist.written
    /\ Intermediates(BY_GAME_FEEDS[1], asm.season) /= {}
    /\ hist.removed = {}

\* The weekly composites of a season in the store.
WeeklyComposites(season) ==
    {FeedFile(u, BY_GAME_FEEDS[n]) :
        u \in {v \in Units : v.kind = "week" /\ v.season = season},
        n \in DOMAIN BY_GAME_FEEDS} \cap DOMAIN store

\* C15: the cleanup of the weekly files after a season-level assembly does
\* not end the run; once the assembler has gone on from a feed it assembled,
\* no weekly composite of the season is left, and nothing of another season
\* has been removed.
C15_WeeklyCompositesDeleted ==
    asm.kind = "season" =>
        /\ asm.pc = "delete_weekly" => proc = "running"
        /\ \A n \in DOMAIN BY_GAME_FEEDS :
             (asm.feedIdx > n /\ FeedFile(asm, BY_GAME_FEEDS[n]) \in hist.written) =>
                 /\ WeeklyComposites(asm.season) = {}
                 /\ \A path \in hist.removed : IsSubstring("season." \o asm.season, path)

\* The cleanup of the weekly files ended the run and the weekly composites
\* are still there.
C15_WeeklyCleanupRaises ==
    /\ asm.kind = "season" /\ asm.pc = "delete_weekly"
    /\ proc = "raised" /\ exc = "FileNotFoundError"
    /\ FeedFile(asm, CurrentFeed(asm)) \in hist.written
    /\ WeeklyComposites(asm.season) /= {}

\* The control points of the loop over the by-game feeds.
ByGamePhase == {"feed", "game", "wait_game", "delete_games", "delete_weekly"}

\* The game-list batch of the unit has returned with errors.
ListBatchFailed ==
    /\ proc = "running" /\ Len(stack) = 1
    /\ Finished(Top) /\ asm.pc = "wait_list"
    /\ Top.errors /= <<>>

\* C16: the loop over the by-game feeds is entered only from the return of
\* the unit's game-list batch with an empty error list; a batch that returns
\* errors is followed by the end of the unit (the next season, or the return
\* of get_data_for_week), with no client call and no file written.
C16_ListGatesGames ==
    /\ [][(asm'.pc \in ByGamePhase /\ asm.pc \notin ByGamePhase) =>
            /\ asm.pc = "wait_list" /\ Len(stack) = 1
            /\ Finished(Top) /\ Top.errors = <<>>]_vars
    /\ [][ListBatchFailed =>
            /\ store' = store /\ stack' = <<>> /\ docCalls' = docCalls
            /\ hist'.called = hist.called /\ hist'.written = hist.written
            /\ asm'.pc \notin ByGamePhase
            /\ asm.kind = "season" => (asm'.pc = "year" /\ asm'.year = asm.year + 1)
            /\ asm.kind = "week" => asm'.pc = "returned"]_vars

\* get_data_for_week has returned after its game list was rejected: the list
\* was requested, no per-game feed was, and nothing was written.
C16_WeekListFailed ==
    /\ asm.kind = "week" /\ asm.pc = "returned" /\ proc = "exited"
    /\ ListFile(asm) \in hist.called
    /\ ~isfile(ListFile(asm))
    /\ hist.called = {ListFile(asm)}
    /\ hist.written = {}

\* The error records a frame holds for a feed.
ErrorsFor(f, feed) == {e \in DOMAIN f.errors : DictGet(f.errors[e], "feed") = feed}

\* C17: every feed a get_feeds batch has dealt with ends in exactly one of
\* two ways: its artifact is in the store and the batch holds no error record
\* for it, or no artifact is there and the batch holds exactly one; an
\* artifact the batch wrote holds the document the client returned for that
\* feed; and a batch that returns has dealt with all its feeds.
C17_ArtifactOrError ==
    \A n \in DOMAIN stack :
        LET f == stack[n]
        IN /\ f.pc = "for" =>
                \A m \in 1..(f.i - 1) :
                    LET feed == f.feeds[m]
                        path == get_filename(feed, f.season, f.additional_params)
                    IN \/ isfile(path) /\ ErrorsFor(f, feed) = {}
                       \/ ~isfile(path) /\ Cardinality(ErrorsFor(f, feed)) = 1
           /\ (f.pc = "for" /\ f.last = "written") =>
                LET answer == Answer(catalogue, Request(f, LeftFeed(f)))
                IN /\ answer.status = 200
                   /\ store[LeftFile(f)].json = DictPop(answer.doc, "lastUpdatedOn")
           /\ Finished(f) => f.i = Len(f.feeds) + 1
           /\ Len(f.errors) <= Len(f.feeds)

\* The season batch has returned with one error, for the first seasonal
\* feed, and with the artifacts of its two sibling feeds written.
C17_SiblingsFetched ==
    /\ Len(stack) = 1 /\ Finished(Top) /\ Len(Top.feeds) = 3
    /\ Len(Top.errors) = 1
    /\ DictGet(Top.errors[1], "feed") = Top.feeds[1]
    /\ {get_filename(Top.feeds[m], Top.season, Top.additional_params) : m \in 2..3}
         \subseteq hist.written

\* The client has answered the request with a document that is empty once
\* lastUpdatedOn is popped.
EmptyAnswered ==
    /\ proc = "running" /\ stack /= <<>>
    /\ Top.pc = "after" /\ Top.retry = 0
    /\ Top.data.bound /\ DOMAIN Top.data.v = {}

\* C18: an answer without content is followed by one more error record for
\* the feed, with no file written and without the run ending.
C18_EmptyRecorded ==
    [][EmptyAnswered =>
         /\ proc' = "running" /\ exc' = "none"
         /\ stack' /= <<>>
         /\ Len(Top'.errors) = Len(Top.errors) + 1
         /\ DictGet(Top'.errors[Len(Top'.errors)], "feed") = Feed(Top)
         /\ store' = store]_vars

\* The run dies of the unbound `status` at a game the provider answers
\* without content.
C18_UnboundStatus ==
    /\ proc = "raised" /\ exc = "UnboundLocalError"
    /\ asm.pc = "wait_game"
    /\ catalogue.filing[asm.gameIdx] = "empty"
    /\ hist.resolved = {}

\* C20: no unit has its composite and its error artifact in the store at the
\* same time.
C20_CompositeXorErrors ==
    \A u \in Units, n \in DOMAIN BY_GAME_FEEDS :
        ~(isfile(FeedFile(u, BY_GAME_FEEDS[n])) /\ isfile(ErrorFile(u, BY_GAME_FEEDS[n])))

\* A run has written the composite of a unit whose error artifact an earlier
\* run wrote, and the error artifact is still there.
C20_ErrorsOutliveComposite ==
    /\ runs = 2
    /\ asm.kind \in {"season", "week"}
    /\ \E n \in DOMAIN BY_GAME_FEEDS :
         /\ FeedFile(asm, BY_GAME_FEEDS[n]) \in hist.written
         /\ isfile(ErrorFile(asm, BY_GAME_FEEDS[n]))
         /\ ErrorFile(asm, BY_GAME_FEEDS[n]) \notin hist.written

\* ---------------------------------------------------------------- progress
\* The steps of the process itself: a running Python process takes its next
\* step.  The starts of the process and the supply of files between runs are
\* the environment's.  ClientTransient is enabled at most MaxRetry times in
\* a row for one request, which is the assumption that the client in the end
\* answers with something other than a transient status.
Step ==
    \/ SeasonLoop \/ StartWeek \/ ProcessExit \/ ListReturn \/ FeedCheck
    \/ GameLoop \/ GameReturn \/ Assemble \/ ErrorsWrite \/ DeleteGames
    \/ DeleteWeekly \/ FeedsLoop \/ ClientDocument \/ ClientTransient
    \/ ClientMalformed \/ ClientFatal \/ TryAlternate \/ AlternateReturn
    \/ FeedDone

\* The providers that have outages.
InitLive ==
    /\ Init
    /\ catalogue.outages /= {}

\* The launch during the outage and the launch after it.
StartTwice ==
    /\ runs < 2
    /\ StartProcess

NextLive ==
    \/ StartTwice
    \/ Step

SpecLive == InitLive /\ [][NextLive]_vars /\ WF_vars(Step)

\* C19: every get_feeds call in progress comes to its end, by returning or by
\* raising; and a request the client has answered with a document has its
\* artifact in the store as soon as the call has left the retry loop,
\* however many transient answers came before.
C19_FetchTerminates ==
    /\ (stack /= <<>>) ~> (stack = <<>>)
    /\ [](\A path \in DOMAIN docCalls :
            \/ isfile(path)
            \/ stack /= <<>> /\ Top.pc = "after" /\ Top.retry = 0 /\ JsonFile(Top) = path)

\* A request was answered with a document after MaxRetry transient answers,
\* and its artifact is written.
C19_WrittenAfterRetries ==
    /\ stack /= <<>>
    /\ Top.pc = "for" /\ Top.last = "written"
    /\ Len(Top.sleeps) = MaxRetry
    /\ Top.ncalls = MaxRetry + 1
    /\ isfile(LeftFile(Top))
    /\ LeftFile(Top) \in DOMAIN docCalls

====
